---- MODULE Spec2Model ----
(***************************************************************************)
(* git-gen: a CLI that collects the pending git changes, asks a text       *)
(* generation service for a commit message / PR title / PR body, parses    *)
(* the reply and prints it or acts on it.                                  *)
(*                                                                         *)
(* The repository holds four variants of generate():                      *)
(*   "print"   src/index.ts 52-171          stream, print to the console   *)
(*   "spinner" src/src/generate.ts 27-190   stream, confirm, commit + PR   *)
(*   "oneshot" src/unnamed/part_001 25-115  one-shot prompt call, print    *)
(*   "live"    src/unnamed/part_001 161-403 stream with live thinking      *)
(*             rendering, confirm commit, confirm PR                       *)
(*                                                                         *)
(* Texts are sequences of tokens.  A token is one character ("x", "\n",    *)
(* "/", ...) or one of the literal marker words.                           *)
(***************************************************************************)
EXTENDS Integers, Sequences, FiniteSets, TLC

VARIABLES
    flow,            \* which variant of generate() runs
    pc,              \* position of the main control flow
    exitCode,        \* -1 while running, else the process exit status
    trace,           \* what the run printed and which collaborators it called, in order
    company,         \* generate: const company
    staged,          \* getGitDiff: const staged
    unstaged,        \* getGitDiff: const unstaged
    diffPc,          \* position of the getGitDiff() task
    statusPc,        \* position of the getChangedFiles() task
    diff,            \* generate: const diff
    changedFiles,    \* generate: const changedFiles
    ticket,          \* generate: const ticket
    summary,         \* generate: const summary
    stream,          \* the messages the service emits for this query, in order
    pos,             \* index of the next message the for-await loop reads
    responseText,    \* generate: let responseText (oneshot: const response)
    streamError,     \* live: let streamError
    streamDone,      \* live: let streamDone
    thinkingStarted, \* live: let thinkingStarted
    thinkingDone,    \* live: let thinkingDone
    thinkingQueue,   \* live: const thinkingQueue
    thinkingResolve, \* live: TRUE when thinkingResolve holds a resolver
    prodPc,          \* live: position of the consumeStream task
    obs,             \* live: position of the p.stream.step(thinkingIterable) loop
    obsResult,       \* live: the IteratorResult the last next() settled with
    ingested,        \* live: the chunks handed to pushThinking, in order
    delivered,       \* live: the chunks the observer wrote, in order
    parsed,          \* generate: const parsed
    cwd,             \* detectCompany: const cwd (null outside a detectCompany call)
    prompts          \* detectCompany: const prompts (null outside a detectCompany call)

vars == <<flow, pc, exitCode, trace, company, staged, unstaged, diffPc, statusPc,
          diff, changedFiles, ticket, summary, stream, pos, responseText,
          streamError, streamDone, thinkingStarted, thinkingDone, thinkingQueue,
          thinkingResolve, prodPc, obs, obsResult, ingested, delivered, parsed,
          cwd, prompts>>

detectVars == <<cwd, prompts>>

(***************************************************************************)
(* Bounds                                                                  *)
(***************************************************************************)
MaxEvents == 4      \* longest message stream the service emits
MaxTextLen == 7     \* longest answer text handed to parseResponse on its own
MaxCwdLen == 5      \* longest working directory path

(***************************************************************************)
(* Values                                                                  *)
(***************************************************************************)
Null == <<"null">>                 \* JS null / undefined; no text contains this token
Whitespace == {"\n", " "}          \* what String.prototype.trim strips (within the alphabet)
Markers == {"COMMIT_MESSAGE", "PR_TITLE", "PR_BODY"}

Flows == {"print", "spinner", "oneshot", "live"}
StreamingFlows == {"print", "spinner", "live"}
InteractiveFlows == {"spinner", "live"}

SeqsUpTo(S, n) == UNION {[1..k -> S] : k \in 0..n}

Min(S) == CHOOSE m \in S : \A k \in S : m <= k

(***************************************************************************)
(* String helpers                                                          *)
(***************************************************************************)
RECURSIVE TrimStart(_)
TrimStart(s) ==
    IF s = <<>> THEN s
    ELSE IF Head(s) \in Whitespace THEN TrimStart(Tail(s)) ELSE s

RECURSIVE TrimEnd(_)
TrimEnd(s) ==
    IF s = <<>> THEN s
    ELSE IF s[Len(s)] \in Whitespace THEN TrimEnd(SubSeq(s, 1, Len(s) - 1)) ELSE s

Trim(s) == TrimEnd(TrimStart(s))

\* String.prototype.includes
Includes(s, sub) ==
    \E i \in 1..(Len(s) - Len(sub) + 1) : SubSeq(s, i, i + Len(sub) - 1) = sub

\* optional chaining and nullish coalescing
OptTrim(v) == IF v = Null THEN Null ELSE Trim(v)
Coalesce(v, d) == IF v = Null THEN d ELSE v

(***************************************************************************)
(* Project detection                                                       *)
(***************************************************************************)
PromptNames == {<<"a">>, <<"b">>}

\* getAvailablePrompts: the names of the *.md files, in scan order
PromptLists == {l \in SeqsUpTo(PromptNames, 2) : \A i, j \in 1..Len(l) : i # j => l[i] # l[j]}

\* process.cwd(): an absolute path without a trailing slash
Cwds == {c \in SeqsUpTo({"/", "a", "b"}, MaxCwdLen) :
            /\ Len(c) >= 1
            /\ c[1] = "/"
            /\ (Len(c) > 1 => c[Len(c)] # "/")
            /\ \A i \in 1..(Len(c) - 1) : ~(c[i] = "/" /\ c[i + 1] = "/")}

detectCompany(dir, names) ==
    LET hits == {i \in 1..Len(names) : Includes(dir, <<"/">> \o names[i] \o <<"/">>)}
    IN  IF hits = {} THEN Null ELSE names[Min(hits)]

(***************************************************************************)
(* Response parser                                                         *)
(***************************************************************************)
NoMatch == [matched |-> FALSE, group1 |-> <<>>]

\* text.match(/<marker>\n([\s\S]*?)(?=\n<next>\n)/): leftmost start, shortest capture
MatchUntil(text, marker, next) ==
    LET Ends(i) == {j \in (i + 2)..(Len(text) - 2) :
                        text[j] = "\n" /\ text[j + 1] = next /\ text[j + 2] = "\n"}
        starts == {i \in 1..(Len(text) - 1) :
                        text[i] = marker /\ text[i + 1] = "\n" /\ Ends(i) # {}}
    IN  IF starts = {} THEN NoMatch
        ELSE LET i == Min(starts)
             IN  [matched |-> TRUE, group1 |-> SubSeq(text, i + 2, Min(Ends(i)) - 1)]

\* text.match(/<marker>\n([\s\S]*)/): leftmost start, capture to the end
MatchToEnd(text, marker) ==
    LET starts == {i \in 1..(Len(text) - 1) : text[i] = marker /\ text[i + 1] = "\n"}
    IN  IF starts = {} THEN NoMatch
        ELSE [matched |-> TRUE, group1 |-> SubSeq(text, Min(starts) + 2, Len(text))]

\* m?.[1]
Group1(m) == IF m.matched THEN m.group1 ELSE Null

\* CommitField with a trimmed fallback
CommitFieldTrimmedFallback(text) ==
    Coalesce(OptTrim(Group1(MatchUntil(text, "COMMIT_MESSAGE", "PR_TITLE"))), Trim(text))

CommitField(text) == Coalesce(OptTrim(Group1(MatchUntil(text, "COMMIT_MESSAGE", "PR_TITLE"))), text)
TitleField(text) == Coalesce(OptTrim(Group1(MatchUntil(text, "PR_TITLE", "PR_BODY"))), <<>>)
BodyField(text) == Coalesce(OptTrim(Group1(MatchToEnd(text, "PR_BODY"))), <<>>)

parseResponse(text) ==
    [commitMessage |-> CommitField(text),
     prTitle |-> TitleField(text),
     prBody |-> BodyField(text)]

NotParsed == [commitMessage |-> Null, prTitle |-> Null, prBody |-> Null]

(***************************************************************************)
(* Inputs                                                                  *)
(***************************************************************************)
GitTexts == {<<>>, <<"\n">>, <<"x">>}          \* what a git command prints
TicketInputs == {<<>>, <<"T">>}                \* what the user types as ticket
SummaryInputs == {<<>>, <<"S">>}               \* what the user pastes as summary

ThinkingPayloads == {<<"p">>, <<"q">>}
TextPayloads == {<<"x">>, <<"\n">>}
FailureSubtypes == {"error_during_execution", "error_max_turns"}

Msg(kind, text, subtype) == [kind |-> kind, text |-> text, subtype |-> subtype]

\* the SDK messages the loops tell apart
Messages ==
    {Msg("thinking_delta", t, "") : t \in ThinkingPayloads}
        \cup {Msg("text_delta", t, "") : t \in TextPayloads}
        \cup {Msg("content_block_stop", <<>>, "")}
        \cup {Msg("result", <<>>, st) : st \in {"success"} \cup FailureSubtypes}

Streams == SeqsUpTo(Messages, MaxEvents)

\* result.result of the one-shot call
ResultTexts == {<<>>, <<"\n">>, <<"x">>, <<"COMMIT_MESSAGE", "\n", "x">>}

NoResult == [done |-> FALSE, value |-> <<>>]

NoError == "null"                  \* let streamError: string | null = null
Truthy(str) == str \notin {NoError, ""}

(***************************************************************************)
(* Initial state                                                           *)
(***************************************************************************)
Idle ==
    /\ exitCode = -1
    /\ trace = <<>>
    /\ company = Null
    /\ staged = Null
    /\ unstaged = Null
    /\ diffPc = "idle"
    /\ statusPc = "idle"
    /\ diff = Null
    /\ changedFiles = Null
    /\ ticket = Null
    /\ summary = Null
    /\ stream = <<>>
    /\ pos = 1
    /\ streamError = NoError
    /\ streamDone = FALSE
    /\ thinkingStarted = FALSE
    /\ thinkingDone = FALSE
    /\ thinkingQueue = <<>>
    /\ thinkingResolve = FALSE
    /\ prodPc = "idle"
    /\ obs = "idle"
    /\ obsResult = NoResult
    /\ ingested = <<>>
    /\ delivered = <<>>
    /\ parsed = NotParsed

Init ==
    /\ flow \in Flows
    /\ pc = "start"
    /\ responseText = <<>>
    /\ cwd = Null
    /\ prompts = Null
    /\ Idle

envVars == <<company, staged, unstaged, diffPc, statusPc, diff, changedFiles, ticket, summary>>
genVars == <<stream, pos, responseText, streamError, streamDone>>
liveVars == <<thinkingStarted, thinkingDone, thinkingQueue, thinkingResolve,
              prodPc, obs, obsResult, ingested, delivered>>

\* process.exit(code), or the end of the program, after printing `entries`
Exit(code, entries) ==
    /\ pc' = "exited"
    /\ exitCode' = code
    /\ trace' = trace \o entries

Goto(next, entries) ==
    /\ pc' = next
    /\ trace' = trace \o entries
    /\ UNCHANGED exitCode

(***************************************************************************)
(* generate(): project detection and change collection                     *)
(***************************************************************************)
DetectCompany ==
    /\ pc = "start"
    /\ \E dir \in Cwds, names \in PromptLists :
         LET c == detectCompany(dir, names)
         IN  IF c = Null
             THEN /\ Exit(1, <<"noProject">>)
                  /\ UNCHANGED <<company, diffPc, statusPc>>
             ELSE /\ company' = c
                  /\ diffPc' = "staged"
                  /\ statusPc' = "status"
                  /\ Goto("fetch", <<"detected">>)
    /\ UNCHANGED <<detectVars, flow, staged, unstaged, diff, changedFiles, ticket, summary,
                   genVars, liveVars, parsed>>

\* getGitDiff: git diff --cached, returned when it is not blank
FetchStaged ==
    /\ pc = "fetch"
    /\ diffPc = "staged"
    /\ \E out \in GitTexts :
         /\ staged' = out
         /\ IF Trim(out) # <<>>
            THEN diff' = out /\ diffPc' = "done"
            ELSE diff' = diff /\ diffPc' = "unstaged"
    /\ UNCHANGED <<detectVars, flow, pc, exitCode, trace, company, unstaged, statusPc, changedFiles,
                   ticket, summary, genVars, liveVars, parsed>>

\* getGitDiff: git diff
FetchUnstaged ==
    /\ pc = "fetch"
    /\ diffPc = "unstaged"
    /\ \E out \in GitTexts :
         /\ unstaged' = out
         /\ diff' = out
    /\ diffPc' = "done"
    /\ UNCHANGED <<detectVars, flow, pc, exitCode, trace, company, staged, statusPc, changedFiles,
                   ticket, summary, genVars, liveVars, parsed>>

\* getChangedFiles: git status --short
FetchStatus ==
    /\ pc = "fetch"
    /\ statusPc = "status"
    /\ \E out \in GitTexts : changedFiles' = out
    /\ statusPc' = "done"
    /\ UNCHANGED <<detectVars, flow, pc, exitCode, trace, company, staged, unstaged, diffPc, diff,
                   ticket, summary, genVars, liveVars, parsed>>

\* a git command exits non-zero: Promise.all rejects and nothing catches it
FetchThrows ==
    /\ pc = "fetch"
    /\ diffPc # "done" \/ statusPc # "done"
    /\ Exit(1, <<"uncaught">>)
    /\ UNCHANGED <<detectVars, flow, envVars, genVars, liveVars, parsed>>

\* CheckChanges testing !diff && !changedFiles, without trim()
CheckChangesNoTrim ==
    /\ pc = "fetch"
    /\ diffPc = "done"
    /\ statusPc = "done"
    /\ IF diff = <<>> /\ changedFiles = <<>>
       THEN Exit(1, <<"noChanges">>)
       ELSE Goto("ticket", <<>>)
    /\ UNCHANGED <<detectVars, flow, envVars, genVars, liveVars, parsed>>

\* Promise.all has both results; the no-changes test
CheckChanges ==
    /\ pc = "fetch"
    /\ diffPc = "done"
    /\ statusPc = "done"
    /\ IF Trim(diff) = <<>> /\ Trim(changedFiles) = <<>>
       THEN Exit(1, <<"noChanges">>)
       ELSE Goto("ticket", <<>>)
    /\ UNCHANGED <<detectVars, flow, envVars, genVars, liveVars, parsed>>

(***************************************************************************)
(* generate(): ticket and summary prompts                                  *)
(***************************************************************************)
AskTicket ==
    /\ pc = "ticket"
    /\ \/ \E t \in TicketInputs :
            /\ ticket' = t
            /\ Goto("summary", <<"askTicket">>)
       \/ /\ flow \in InteractiveFlows          \* p.isCancel(ticket)
          /\ Exit(0, <<"askTicket", "cancelled">>)
          /\ UNCHANGED ticket
    /\ UNCHANGED <<detectVars, flow, company, staged, unstaged, diffPc, statusPc, diff, changedFiles,
                   summary, genVars, liveVars, parsed>>

AskSummary ==
    /\ pc = "summary"
    /\ \E s \in SummaryInputs : summary' = s
    /\ Goto("prompt", <<"askSummary">>)
    /\ UNCHANGED <<detectVars, flow, company, staged, unstaged, diffPc, statusPc, diff, changedFiles,
                   ticket, genVars, liveVars, parsed>>

\* The prompt is assembled from company, diff, changedFiles, ticket and summary.
\* Nothing after this point reads them again: their lifetime in the model ends here.
PromptSent ==
    /\ company' = Null
    /\ staged' = Null
    /\ unstaged' = Null
    /\ diff' = Null
    /\ changedFiles' = Null
    /\ ticket' = Null
    /\ summary' = Null
    /\ UNCHANGED <<diffPc, statusPc>>

\* await Bun.file(prompt/<company>.md).text(); ticketContext; userPrompt
AssemblePrompt ==
    /\ pc = "prompt"
    /\ PromptSent
    /\ Goto("query", <<>>)
    /\ UNCHANGED <<detectVars, flow, genVars, liveVars, parsed>>

(***************************************************************************)
(* generate(): the streaming loop of "print" and "spinner"                 *)
(***************************************************************************)
\* query(...): the service decides the message stream
StartQuery ==
    /\ pc = "query"
    /\ flow \in {"print", "spinner"}
    /\ \E st \in Streams : stream' = st
    /\ Goto("stream", <<"query">>)
    /\ UNCHANGED <<detectVars, envVars, flow, pos, responseText, streamError, streamDone, liveVars, parsed>>

AtMessage == pc = "stream" /\ pos <= Len(stream)

\* a stream_event message
ConsumeEvent ==
    /\ AtMessage
    /\ stream[pos].kind # "result"
    /\ responseText' = IF stream[pos].kind = "text_delta"
                       THEN responseText \o stream[pos].text
                       ELSE responseText
    /\ pos' = pos + 1
    /\ UNCHANGED <<detectVars, flow, pc, exitCode, trace, envVars, stream, streamError, streamDone,
                   liveVars, parsed>>

\* ConsumeResult without the break: a success result does not leave the loop
ConsumeResultNoBreak ==
    /\ AtMessage
    /\ stream[pos].kind = "result"
    /\ IF stream[pos].subtype # "success"
       THEN Exit(1, <<"failed", stream[pos].subtype>>)
       ELSE Goto("stream", <<>>)
    /\ pos' = pos + 1
    /\ UNCHANGED <<detectVars, flow, envVars, stream, responseText, streamError, streamDone,
                   liveVars, parsed>>

\* a result message: exit on failure, leave the loop on success
ConsumeResult ==
    /\ AtMessage
    /\ stream[pos].kind = "result"
    /\ IF stream[pos].subtype # "success"
       THEN Exit(1, <<"failed", stream[pos].subtype>>)
       ELSE Goto("check", <<>>)
    /\ pos' = pos + 1
    /\ UNCHANGED <<detectVars, flow, envVars, stream, responseText, streamError, streamDone,
                   liveVars, parsed>>

\* StreamEnds reporting a failure of its own
StreamEndsAsFailure ==
    /\ pc = "stream"
    /\ pos > Len(stream)
    /\ Exit(1, <<"failed", "stream ended without result">>)
    /\ UNCHANGED <<detectVars, flow, envVars, genVars, liveVars, parsed>>

\* the stream ends without a result message: the for-await loop just ends
StreamEnds ==
    /\ pc = "stream"
    /\ pos > Len(stream)
    /\ Goto("check", <<>>)
    /\ UNCHANGED <<detectVars, flow, envVars, genVars, liveVars, parsed>>

(***************************************************************************)
(* generate(): "oneshot" calls unstable_v2_prompt and prints               *)
(***************************************************************************)
OneShot ==
    /\ pc = "query"
    /\ flow = "oneshot"
    /\ \/ \E st \in FailureSubtypes :
            /\ Exit(1, <<"query", "failed", st>>)
            /\ UNCHANGED <<responseText, parsed>>
       \/ \E r \in ResultTexts :
            /\ responseText' = r
            /\ parsed' = parseResponse(r)
            /\ Exit(0, <<"query", "show">>)
    /\ UNCHANGED <<detectVars, envVars, flow, stream, pos, streamError, streamDone, liveVars>>

(***************************************************************************)
(* generate(): after the stream                                            *)
(***************************************************************************)
\* CheckAndShow without the streamError test
CheckAndShowIgnoresError ==
    /\ pc = "check"
    /\ IF Trim(responseText) = <<>>
       THEN /\ Exit(1, <<"empty">>)
            /\ UNCHANGED parsed
       ELSE /\ parsed' = parseResponse(responseText)
            /\ IF flow = "print"
               THEN Exit(0, <<"show">>)
               ELSE Goto("confirm", <<"show">>)
    /\ UNCHANGED <<detectVars, flow, envVars, genVars, liveVars>>

\* streamError test (live only), empty-response test, parseResponse, display
CheckAndShow ==
    /\ pc = "check"
    /\ IF flow = "live" /\ Truthy(streamError)
       THEN /\ Exit(1, <<"failed", streamError>>)
            /\ UNCHANGED parsed
       ELSE IF Trim(responseText) = <<>>
       THEN /\ Exit(1, <<"empty">>)
            /\ UNCHANGED parsed
       ELSE /\ parsed' = parseResponse(responseText)
            /\ IF flow = "print"
               THEN Exit(0, <<"show">>)
               ELSE Goto("confirm", <<"show">>)
    /\ UNCHANGED <<detectVars, flow, envVars, genVars, liveVars>>

(***************************************************************************)
(* generate(): confirmation, commit, push and PR                           *)
(***************************************************************************)
Answers == {"yes", "no", "cancel"}
ConfirmEntry == [yes |-> "confirm:yes", no |-> "confirm:no", cancel |-> "confirm:cancel"]
ConfirmPREntry == [yes |-> "confirmPR:yes", no |-> "confirmPR:no", cancel |-> "confirmPR:cancel"]

\* git.ts gitCommit: git add -A, then git commit -m
CommitOutcomes == {"ok", "addFails", "commitFails"}
gitCommit(outcome) ==
    IF outcome = "addFails" THEN <<"git add">> ELSE <<"git add", "git commit">>

\* git.ts gitPushAndCreatePR: push, then create the PR
PushOutcomes == {"ok", "pushFails", "prFails"}
gitPushAndCreatePR(outcome) ==
    IF outcome = "pushFails" THEN <<"git push">> ELSE <<"git push", "gh pr create">>

\* ConfirmCommit testing !shouldCommit only: the cancel symbol is truthy
ConfirmCommitIgnoresCancel ==
    /\ pc = "confirm"
    /\ \E a \in Answers :
         IF a # "no"
         THEN Goto("commit", <<ConfirmEntry[a]>>)
         ELSE Exit(0, <<ConfirmEntry[a], "outro">>)
    /\ UNCHANGED <<detectVars, flow, envVars, genVars, liveVars, parsed>>

\* p.confirm "Commit and open PR?" / "Commit changes?"
ConfirmCommit ==
    /\ pc = "confirm"
    /\ \E a \in Answers :
         IF a = "yes"
         THEN Goto("commit", <<ConfirmEntry[a]>>)
         ELSE Exit(0, <<ConfirmEntry[a], "outro">>)
    /\ UNCHANGED <<detectVars, flow, envVars, genVars, liveVars, parsed>>

\* try { await gitCommit(...) } catch: report and exit 1
Commit ==
    /\ pc = "commit"
    /\ \E o \in CommitOutcomes :
         IF o = "ok"
         THEN Goto(IF flow = "live" THEN "confirmPR" ELSE "push",
                   gitCommit(o) \o <<"committed">>)
         ELSE Exit(1, gitCommit(o) \o <<"commitFailed">>)
    /\ UNCHANGED <<detectVars, flow, envVars, genVars, liveVars, parsed>>

\* p.confirm "Push and open PR?" (live only)
ConfirmPR ==
    /\ pc = "confirmPR"
    /\ \E a \in Answers :
         IF a = "yes"
         THEN Goto("push", <<ConfirmPREntry[a]>>)
         ELSE Exit(0, <<ConfirmPREntry[a], "outro">>)
    /\ UNCHANGED <<detectVars, flow, envVars, genVars, liveVars, parsed>>

\* PushAndPR reporting the error alone
PushAndPRSilent ==
    /\ pc = "push"
    /\ \E o \in PushOutcomes :
         IF o = "ok"
         THEN Exit(0, gitPushAndCreatePR(o) \o <<"prCreated", "outro">>)
         ELSE Exit(1, gitPushAndCreatePR(o) \o <<"pushFailed">>)
    /\ UNCHANGED <<detectVars, flow, envVars, genVars, liveVars, parsed>>

\* try { await gitPushAndCreatePR(...) } catch: warn that the commit landed
PushAndPR ==
    /\ pc = "push"
    /\ \E o \in PushOutcomes :
         IF o = "ok"
         THEN Exit(0, gitPushAndCreatePR(o) \o <<"prCreated", "outro">>)
         ELSE Exit(1, gitPushAndCreatePR(o) \o <<"landed", "pushFailed">>)
    /\ UNCHANGED <<detectVars, flow, envVars, genVars, liveVars, parsed>>

(***************************************************************************)
(* generate(): the "live" variant: consumeStream feeds the thinking queue, *)
(* p.stream.step(thinkingIterable) drains it                               *)
(***************************************************************************)
IterValue(chunk) == [done |-> FALSE, value |-> chunk]
IterDone == [done |-> TRUE, value |-> <<>>]

\* pushThinking(chunk): hand the chunk to a waiting next(), else queue it
pushThinking(chunk) ==
    /\ IF thinkingResolve
       THEN /\ thinkingResolve' = FALSE
            /\ obsResult' = IterValue(chunk)
            /\ obs' = "settled"
            /\ UNCHANGED thinkingQueue
       ELSE /\ thinkingQueue' = Append(thinkingQueue, chunk)
            /\ UNCHANGED <<thinkingResolve, obsResult, obs>>
    /\ ingested' = Append(ingested, chunk)

\* endThinking(): mark the iterable finished and release a waiting next()
endThinking ==
    /\ thinkingDone' = TRUE
    /\ IF thinkingResolve
       THEN /\ thinkingResolve' = FALSE
            /\ obsResult' = IterDone
            /\ obs' = "settled"
       ELSE UNCHANGED <<thinkingResolve, obsResult, obs>>

\* query(...), the consumeStream task is started and the main flow awaits
\* p.stream.step(thinkingIterable)
StartLive ==
    /\ pc = "query"
    /\ flow = "live"
    /\ \E st \in Streams : stream' = st
    /\ prodPc' = "loop"
    /\ obs' = "ready"
    /\ Goto("awaitStep", <<"query">>)
    /\ UNCHANGED <<detectVars, envVars, flow, pos, responseText, streamError, streamDone, thinkingStarted,
                   thinkingDone, thinkingQueue, thinkingResolve, obsResult, ingested,
                   delivered, parsed>>

AtLiveMessage == prodPc = "loop" /\ pos <= Len(stream)

\* consumeStream: a thinking_delta
LiveThinking ==
    /\ AtLiveMessage
    /\ stream[pos].kind = "thinking_delta"
    /\ thinkingStarted' = TRUE
    /\ pushThinking(stream[pos].text)
    /\ pos' = pos + 1
    /\ UNCHANGED <<detectVars, flow, pc, exitCode, trace, envVars, stream, responseText, streamError,
                   streamDone, thinkingDone, prodPc, delivered, parsed>>

\* consumeStream: a text_delta
LiveText ==
    /\ AtLiveMessage
    /\ stream[pos].kind = "text_delta"
    /\ responseText' = responseText \o stream[pos].text
    /\ pos' = pos + 1
    /\ UNCHANGED <<detectVars, flow, pc, exitCode, trace, envVars, stream, streamError, streamDone,
                   liveVars, parsed>>

\* consumeStream: a content_block_stop closes the thinking stream once
LiveBlockStop ==
    /\ AtLiveMessage
    /\ stream[pos].kind = "content_block_stop"
    /\ IF thinkingStarted /\ ~thinkingDone
       THEN endThinking
       ELSE UNCHANGED <<thinkingDone, thinkingResolve, obsResult, obs>>
    /\ pos' = pos + 1
    /\ UNCHANGED <<detectVars, flow, pc, exitCode, trace, envVars, stream, responseText, streamError,
                   streamDone, thinkingStarted, thinkingQueue, prodPc, ingested,
                   delivered, parsed>>

\* LiveFinish without the closing endThinking(): the loop ends, streamDone = true
LiveFinishNoEnd ==
    /\ prodPc = "loop"
    /\ IF pos <= Len(stream)
       THEN /\ stream[pos].kind = "result"
            /\ streamError' = IF stream[pos].subtype # "success"
                              THEN stream[pos].subtype
                              ELSE streamError
            /\ pos' = pos + 1
       ELSE UNCHANGED <<streamError, pos>>
    /\ streamDone' = TRUE
    /\ prodPc' = "finished"
    /\ UNCHANGED <<detectVars, flow, pc, exitCode, trace, envVars, stream, responseText,
                   thinkingStarted, thinkingDone, thinkingQueue, thinkingResolve,
                   obs, obsResult, ingested, delivered, parsed>>

\* consumeStream: a result message or the end of the stream leaves the loop;
\* if (!thinkingDone) endThinking(); streamDone = true
LiveFinish ==
    /\ prodPc = "loop"
    /\ IF pos <= Len(stream)
       THEN /\ stream[pos].kind = "result"
            /\ streamError' = IF stream[pos].subtype # "success"
                              THEN stream[pos].subtype
                              ELSE streamError
            /\ pos' = pos + 1
       ELSE UNCHANGED <<streamError, pos>>
    /\ IF ~thinkingDone
       THEN endThinking
       ELSE UNCHANGED <<thinkingDone, thinkingResolve, obsResult, obs>>
    /\ streamDone' = TRUE
    /\ prodPc' = "finished"
    /\ UNCHANGED <<detectVars, flow, pc, exitCode, trace, envVars, stream, responseText,
                   thinkingStarted, thinkingQueue, ingested, delivered, parsed>>

\* thinkingIterable next(): a queued chunk, else done, else a pending promise
ObserverNext ==
    /\ obs = "ready"
    /\ IF thinkingQueue # <<>>
       THEN /\ obsResult' = IterValue(Head(thinkingQueue))
            /\ thinkingQueue' = Tail(thinkingQueue)
            /\ obs' = "settled"
            /\ UNCHANGED thinkingResolve
       ELSE IF thinkingDone
       THEN /\ obsResult' = IterDone
            /\ obs' = "settled"
            /\ UNCHANGED <<thinkingQueue, thinkingResolve>>
       ELSE /\ thinkingResolve' = TRUE
            /\ obs' = "waiting"
            /\ UNCHANGED <<thinkingQueue, obsResult>>
    /\ UNCHANGED <<detectVars, flow, pc, exitCode, trace, envVars, genVars, thinkingStarted,
                   thinkingDone, prodPc, ingested, delivered, parsed>>

\* p.stream.step: the awaited next() settled: write the chunk, or stop on done
ObserverReceive ==
    /\ obs = "settled"
    /\ IF obsResult.done
       THEN /\ obs' = "done"
            /\ UNCHANGED delivered
       ELSE /\ delivered' = Append(delivered, obsResult.value)
            /\ obs' = "ready"
    /\ obsResult' = NoResult
    /\ UNCHANGED <<detectVars, flow, pc, exitCode, trace, envVars, genVars, thinkingStarted,
                   thinkingDone, thinkingQueue, thinkingResolve, prodPc, ingested, parsed>>

\* await p.stream.step(...) returned; if (!streamDone) start the second spinner
StepReturned ==
    /\ pc = "awaitStep"
    /\ obs = "done"
    /\ Goto("awaitConsume", IF streamDone THEN <<>> ELSE <<"writing">>)
    /\ UNCHANGED <<detectVars, flow, envVars, genVars, liveVars, parsed>>

\* await consumeStream returned
ConsumeReturned ==
    /\ pc = "awaitConsume"
    /\ prodPc = "finished"
    /\ Goto("check", <<>>)
    /\ UNCHANGED <<detectVars, flow, envVars, genVars, liveVars, parsed>>

(***************************************************************************)
(* Specification of the program                                            *)
(***************************************************************************)
Next ==
    \/ DetectCompany
    \/ FetchStaged
    \/ FetchUnstaged
    \/ FetchStatus
    \/ FetchThrows
    \/ CheckChanges
    \/ AskTicket
    \/ AskSummary
    \/ AssemblePrompt
    \/ StartQuery
    \/ ConsumeEvent
    \/ ConsumeResult
    \/ StreamEnds
    \/ OneShot
    \/ StartLive
    \/ LiveThinking
    \/ LiveText
    \/ LiveBlockStop
    \/ LiveFinish
    \/ ObserverNext
    \/ ObserverReceive
    \/ StepReturned
    \/ ConsumeReturned
    \/ CheckAndShow
    \/ ConfirmCommit
    \/ Commit
    \/ ConfirmPR
    \/ PushAndPR

Spec == Init /\ [][Next]_vars

(***************************************************************************)
(* Specification of parseResponse on its own: every text up to MaxTextLen  *)
(***************************************************************************)
Alphabet == Markers \cup {"\n", "x"}
Texts == SeqsUpTo(Alphabet, MaxTextLen)

InitParse ==
    /\ flow = "print"
    /\ pc = "parse"
    /\ responseText \in Texts
    /\ cwd = Null
    /\ prompts = Null
    /\ Idle

ApplyParse ==
    /\ pc = "parse"
    /\ parsed' = parseResponse(responseText)
    /\ pc' = "parsed"
    /\ UNCHANGED <<detectVars, flow, exitCode, trace, envVars, genVars, liveVars>>

NextParse == ApplyParse

SpecParse == InitParse /\ [][NextParse]_vars

(***************************************************************************)
(* Vocabulary of the properties                                            *)
(***************************************************************************)
Said(e) == \E i \in DOMAIN trace : trace[i] = e
Before(a, b) == \E i, j \in DOMAIN trace : i < j /\ trace[i] = a /\ trace[j] = b

ResultIdx(st) == {i \in DOMAIN st : st[i].kind = "result"}
HasResult(st) == ResultIdx(st) # {}
\* the messages up to, not including, the first result message
BeforeResult(st) == IF HasResult(st) THEN SubSeq(st, 1, Min(ResultIdx(st)) - 1) ELSE st
FirstSubtype(st) == st[Min(ResultIdx(st))].subtype

RECURSIVE AnswerPayloads(_)
AnswerPayloads(st) ==
    IF st = <<>> THEN <<>>
    ELSE (IF Head(st).kind = "text_delta" THEN Head(st).text ELSE <<>>)
             \o AnswerPayloads(Tail(st))

Kinds(st) == {st[i].kind : i \in DOMAIN st}

\* a streaming variant has sent its query
Streaming == flow \in StreamingFlows /\ Said("query")
\* ... and its loop over the messages has ended
LoopOver ==
    /\ Streaming
    /\ pc \notin {"stream", "awaitStep", "awaitConsume"}
    /\ flow = "live" => prodPc = "finished"
\* ... and the tests that follow the loop have been taken
PastCheck == LoopOver /\ pc # "check"

GitEntries == {"git add", "git commit", "git push", "gh pr create"}

(***************************************************************************)
(* C1  Reasoning isolation: when the messages end with a success result,   *)
(* responseText is the concatenation of the text_delta payloads before the *)
(* result, in order; thinking deltas, block stops and the messages after   *)
(* the result leave no mark on it.                                         *)
(***************************************************************************)
C1_ReasoningIsolation ==
    (LoopOver /\ HasResult(stream) /\ FirstSubtype(stream) = "success")
        => responseText = AnswerPayloads(BeforeResult(stream))

C1_Witness ==
    /\ LoopOver
    /\ HasResult(stream)
    /\ FirstSubtype(stream) = "success"
    /\ {"thinking_delta", "text_delta"} \subseteq Kinds(BeforeResult(stream))
    /\ stream[Len(stream)].kind = "text_delta"
    /\ responseText # <<>>

(***************************************************************************)
(* C2  Failure propagation: when the result message of the stream is not a *)
(* success, nothing is parsed, shown, committed or pushed, and the run can *)
(* only end with status 1 right after reporting that subtype, also when    *)
(* text deltas came first.                                                 *)
(***************************************************************************)
C2_FailurePropagation ==
    /\ (Streaming /\ HasResult(stream) /\ FirstSubtype(stream) # "success") =>
          /\ parsed = NotParsed
          /\ ~Said("show")
          /\ \A g \in GitEntries : ~Said(g)
          /\ pc \notin {"confirm", "commit", "confirmPR", "push"}
          /\ pc = "exited" =>
                /\ exitCode = 1
                /\ Len(trace) >= 2
                /\ trace[Len(trace) - 1] = "failed"
                /\ trace[Len(trace)] = FirstSubtype(stream)
    /\ Said("failed") => (pc = "exited" /\ exitCode = 1 /\ parsed = NotParsed)

C2_Witness ==
    /\ Streaming
    /\ HasResult(stream)
    /\ FirstSubtype(stream) # "success"
    /\ Trim(AnswerPayloads(BeforeResult(stream))) # <<>>
    /\ pc = "exited"
    /\ exitCode = 1

(***************************************************************************)
(* C3  Empty-success guard, in every variant: parseResponse is never       *)
(* applied to a blank answer, and a success with a blank answer ends with  *)
(* status 1 after reporting an empty response.                             *)
(***************************************************************************)
C3_EmptySuccessGuard ==
    /\ parsed # NotParsed => Trim(responseText) # <<>>
    /\ (pc = "exited" /\ Said("query") /\ ~Said("failed") /\ Trim(responseText) = <<>>)
          => (exitCode = 1 /\ Said("empty"))

(***************************************************************************)
(* C4  As claimed: a stream that ends without a result message is a        *)
(* failure; its text is never parsed or shown and the run never exits 0.   *)
(***************************************************************************)
C4_ExhaustionIsFailure ==
    (Streaming /\ ~HasResult(stream)) =>
        /\ parsed = NotParsed
        /\ ~Said("show")
        /\ exitCode # 0

(***************************************************************************)
(* C4 amended: a stream that ends without a result message is handled like *)
(* one that ends with a success result: no failure is reported; a blank    *)
(* accumulated text ends the run with status 1 ("empty"), any other text   *)
(* is parsed and shown.                                                    *)
(***************************************************************************)
C4_ExhaustionFallsThrough ==
    (Streaming /\ ~HasResult(stream)) =>
        /\ ~Said("failed")
        /\ PastCheck =>
              IF Trim(AnswerPayloads(stream)) = <<>>
              THEN /\ pc = "exited"
                   /\ exitCode = 1
                   /\ trace[Len(trace)] = "empty"
                   /\ parsed = NotParsed
              ELSE /\ parsed = parseResponse(AnswerPayloads(stream))
                   /\ Said("show")

C4_Witness ==
    /\ Streaming
    /\ ~HasResult(stream)
    /\ "thinking_delta" \in Kinds(stream)
    /\ Trim(AnswerPayloads(stream)) # <<>>
    /\ PastCheck
    /\ parsed # NotParsed

(***************************************************************************)
(* C5  Reasoning queue delivery: once consumeStream has finished and the   *)
(* observer has received done, the chunks the observer wrote are exactly   *)
(* the thinking payloads ingested, in order.                               *)
(***************************************************************************)
C5_QueueDelivery ==
    (flow = "live" /\ prodPc = "finished" /\ obs = "done") => delivered = ingested

(***************************************************************************)
(* C7  Confirmation gating: gitCommit runs only after the parsed result    *)
(* was shown and confirmed; push/PR runs only after a successful commit    *)
(* (in "live", after a second confirmation); a decline or cancel ends the  *)
(* run with status 0 and a failed commit ends it with status 1, in both    *)
(* cases without any later collaborator call.                              *)
(***************************************************************************)
C7_ConfirmationGating ==
    /\ \A i \in DOMAIN trace : trace[i] = "git add" =>
          /\ flow \in InteractiveFlows
          /\ \E j, k \in 1..(i - 1) :
                j < k /\ trace[j] = "show" /\ trace[k] = "confirm:yes"
    /\ \A i \in DOMAIN trace : trace[i] \in {"git push", "gh pr create"} =>
          \E c \in 1..(i - 1) :
             /\ trace[c] = "committed"
             /\ flow = "live" => \E k \in (c + 1)..(i - 1) : trace[k] = "confirmPR:yes"
    /\ (Said("confirm:no") \/ Said("confirm:cancel")) =>
          /\ pc = "exited" /\ exitCode = 0
          /\ \A g \in GitEntries : ~Said(g)
    /\ (Said("confirmPR:no") \/ Said("confirmPR:cancel")) =>
          /\ pc = "exited" /\ exitCode = 0
          /\ ~Said("git push") /\ ~Said("gh pr create")
    /\ Said("commitFailed") =>
          /\ pc = "exited" /\ exitCode = 1
          /\ ~Said("committed") /\ ~Said("git push") /\ ~Said("gh pr create")
    /\ pc \in {"commit", "confirmPR", "push"} => Before("show", "confirm:yes")

C7_Witness ==
    /\ flow = "live"
    /\ pc = "exited"
    /\ Said("gh pr create")
    /\ Said("prCreated")

(***************************************************************************)
(* C8  Partial-failure reporting: a push/PR step that fails after the      *)
(* commit succeeded ends the run with status 1 after reporting that the    *)
(* commit already landed and then the error; the "landed" report appears   *)
(* only after a successful commit.                                         *)
(***************************************************************************)
C8_PartialFailure ==
    /\ (pc = "exited" /\ Said("git push") /\ ~Said("prCreated")) =>
          /\ exitCode = 1
          /\ Before("committed", "landed")
          /\ trace[Len(trace) - 1] = "landed"
          /\ trace[Len(trace)] = "pushFailed"
    /\ Said("landed") =>
          /\ Before("committed", "git push")
          /\ Before("git push", "landed")
          /\ ~Said("commitFailed")

C8_Witness ==
    /\ pc = "exited"
    /\ exitCode = 1
    /\ Said("gh pr create")
    /\ Said("landed")

(***************************************************************************)
(* C9  Change detection: when the staged diff, the unstaged diff and the   *)
(* status are all blank, the run ends with status 1 reporting no changes,  *)
(* before any prompt and before the query; the decision is never taken     *)
(* before both fetches are complete.                                       *)
(***************************************************************************)
Blank(t) == t # Null /\ Trim(t) = <<>>

C9_ChangeDetection ==
    /\ (Blank(staged) /\ Blank(unstaged) /\ Blank(changedFiles) /\ pc # "fetch") =>
          /\ pc = "exited"
          /\ exitCode = 1
          /\ trace = <<"detected", "noChanges">>
    /\ (Said("noChanges") \/ Said("askTicket")) =>
          /\ diffPc = "done"
          /\ statusPc = "done"
    /\ Said("noChanges") => ~Said("askTicket") /\ ~Said("query")

C9_Witness ==
    /\ staged = <<"\n">>
    /\ unstaged = <<>>
    /\ changedFiles = <<"\n">>
    /\ pc = "exited"
    /\ Said("noChanges")

(***************************************************************************)
(* Vocabulary of the parser properties                                     *)
(***************************************************************************)
Positions(text, marker) == {i \in DOMAIN text : text[i] = marker}
NoMarkers(text) == \A i \in DOMAIN text : text[i] \notin Markers

\* the marker word is alone on its line and more text follows the line
MarkerLine(text, i) ==
    /\ i = 1 \/ text[i - 1] = "\n"
    /\ i < Len(text)
    /\ text[i + 1] = "\n"

(***************************************************************************)
(* C6  Partial markers: for a text with one COMMIT_MESSAGE line, at least  *)
(* one line of commit text, then one PR_TITLE line, and no PR_BODY,        *)
(* parseResponse gives the trimmed text between the two marker lines as    *)
(* commitMessage, the trimmed text after the PR_TITLE line as prTitle, and *)
(* an empty prBody.                                                        *)
(***************************************************************************)
C6_PartialMarkers ==
    pc = "parsed" =>
        \A i \in Positions(responseText, "COMMIT_MESSAGE"),
           j \in Positions(responseText, "PR_TITLE") :
            ( /\ Positions(responseText, "COMMIT_MESSAGE") = {i}
              /\ Positions(responseText, "PR_TITLE") = {j}
              /\ Positions(responseText, "PR_BODY") = {}
              /\ i + 2 < j
              /\ MarkerLine(responseText, i)
              /\ MarkerLine(responseText, j) )
            => /\ parsed.commitMessage = Trim(SubSeq(responseText, i + 2, j - 1))
               /\ parsed.prTitle = Trim(SubSeq(responseText, j + 2, Len(responseText)))
               /\ parsed.prBody = <<>>

(***************************************************************************)
(* C10  As claimed: for a text without any marker, commitMessage is the    *)
(* trimmed text, prTitle and prBody are empty; no field is ever null.      *)
(***************************************************************************)
NoNullField ==
    /\ parsed.commitMessage # Null
    /\ parsed.prTitle # Null
    /\ parsed.prBody # Null

C10_TrimmedFallback ==
    pc = "parsed" =>
        /\ NoNullField
        /\ NoMarkers(responseText) =>
              /\ parsed.commitMessage = Trim(responseText)
              /\ parsed.prTitle = <<>>
              /\ parsed.prBody = <<>>

(***************************************************************************)
(* C10 amended: for a text without any marker, commitMessage is the whole  *)
(* text as it is, not trimmed; prTitle and prBody are empty; no field is   *)
(* ever null.                                                              *)
(***************************************************************************)
C10_RawFallback ==
    pc = "parsed" =>
        /\ NoNullField
        /\ NoMarkers(responseText) =>
              /\ parsed.commitMessage = responseText
              /\ parsed.prTitle = <<>>
              /\ parsed.prBody = <<>>

C10_Witness ==
    /\ pc = "parsed"
    /\ responseText = <<"\n", "x", "\n">>
    /\ parsed.commitMessage = responseText

(***************************************************************************)
(* C11  Marker matching: a marker word that does not start its line is not *)
(* a section boundary.  In particular, for a text in which no marker word  *)
(* starts a line, parseResponse cuts no section: commitMessage is the      *)
(* whole text, prTitle and prBody are empty.                               *)
(***************************************************************************)
LineStart(text, i) == i = 1 \/ text[i - 1] = "\n"

C11_MarkersStartALine ==
    pc = "parsed" =>
        ( (\A i \in DOMAIN responseText :
              responseText[i] \in Markers => ~LineStart(responseText, i))
          => parsed = [commitMessage |-> responseText, prTitle |-> <<>>, prBody |-> <<>>] )

(***************************************************************************)
(* Specification of detectCompany on its own: every working directory up   *)
(* to MaxCwdLen and every scan order of the prompt files                   *)
(***************************************************************************)
InitDetect ==
    /\ flow = "print"
    /\ pc = "detect"
    /\ responseText = <<>>
    /\ cwd \in Cwds
    /\ prompts \in PromptLists
    /\ Idle

ApplyDetect ==
    /\ pc = "detect"
    /\ company' = detectCompany(cwd, prompts)
    /\ pc' = "detected"
    /\ UNCHANGED <<detectVars, flow, exitCode, trace, staged, unstaged, diffPc, statusPc,
                   diff, changedFiles, ticket, summary, genVars, liveVars, parsed>>

NextDetect == ApplyDetect

SpecDetect == InitDetect /\ [][NextDetect]_vars

(***************************************************************************)
(* C12  Profile detection: detectCompany returns an id whenever some       *)
(* available id is a path segment of the working directory; the id it      *)
(* returns is the first in scan order for which cwd contains /id/; it      *)
(* returns null only when no available id is a path segment.               *)
(***************************************************************************)
\* id is one of the segments of path, the text between two slashes or after the last
IsSegment(path, id) ==
    \E i \in 2..(Len(path) - Len(id) + 1) :
        /\ path[i - 1] = "/"
        /\ SubSeq(path, i, i + Len(id) - 1) = id
        /\ i + Len(id) - 1 = Len(path) \/ path[i + Len(id)] = "/"

Contained(k) == Includes(cwd, <<"/">> \o prompts[k] \o <<"/">>)

C12_ProfileDetection ==
    pc = "detected" =>
        /\ (\E k \in DOMAIN prompts : IsSegment(cwd, prompts[k])) => company # Null
        /\ company # Null =>
              \E k \in DOMAIN prompts :
                 /\ company = prompts[k]
                 /\ Contained(k)
                 /\ \A h \in 1..(k - 1) : ~Contained(h)
        /\ company = Null => \A k \in DOMAIN prompts : ~IsSegment(cwd, prompts[k])

(***************************************************************************)
(* Specification of the "live" variant with its scheduling: the service    *)
(* delivers the messages of the stream, and the event loop runs every      *)
(* continuation that is ready (consumeStream, the p.stream.step loop, the  *)
(* main flow after an await)                                               *)
(***************************************************************************)
InitLive == Init /\ flow = "live"

Producer == LiveThinking \/ LiveText \/ LiveBlockStop \/ LiveFinish
Observer == ObserverNext \/ ObserverReceive
MainAwaits == StepReturned \/ ConsumeReturned

NextLive ==
    \/ DetectCompany
    \/ FetchStaged
    \/ FetchUnstaged
    \/ FetchStatus
    \/ FetchThrows
    \/ CheckChanges
    \/ AskTicket
    \/ AskSummary
    \/ AssemblePrompt
    \/ StartLive
    \/ Producer
    \/ Observer
    \/ MainAwaits
    \/ CheckAndShow
    \/ ConfirmCommit
    \/ Commit
    \/ ConfirmPR
    \/ PushAndPR

SpecLive ==
    /\ InitLive
    /\ [][NextLive]_vars
    /\ WF_vars(Producer)
    /\ WF_vars(Observer)
    /\ WF_vars(MainAwaits)

(***************************************************************************)
(* C13  No renderer deadlock: in the live variant, once the query is sent, *)
(* the run eventually stands at the tests after the stream with streamDone *)
(* true, endThinking called, no next() pending and the observer done; and  *)
(* an observer waiting on next() always gets its promise resolved.         *)
(***************************************************************************)
AtChecks ==
    /\ pc = "check"
    /\ streamDone
    /\ thinkingDone
    /\ ~thinkingResolve
    /\ obs = "done"

C13_NoRendererDeadlock ==
    /\ (flow = "live" /\ pc = "awaitStep") ~> AtChecks
    /\ (obs = "waiting") ~> (obs = "settled")

C13_Witness ==
    /\ flow = "live"
    /\ AtChecks
    /\ {"thinking_delta", "content_block_stop", "result"} \subseteq Kinds(stream)
    /\ delivered # <<>>

====
